---- MODULE Spec2Model ----
(***************************************************************************)
(* Console Tic Tac Toe for two human players (src/tic_tac_toe.py).         *)
(*                                                                         *)
(* Spec   : one session of play_game, one step per input read by take_turn *)
(*          and one step per statement group of the play_game loop.        *)
(* SpecFn : winner, is_draw and switch_player applied to an arbitrary      *)
(*          GameState: a board of {" ", "X", "O"}^9 and either player.      *)
(***************************************************************************)
EXTENDS Integers, Sequences, FiniteSets, TLC

VARIABLES board,          \* game.board, a list of 9 cells indexed 0..8
          current_player, \* game.current_player
          pc,             \* position in play_game
          win,            \* local variable win of play_game
          draw,           \* values returned by is_draw so far (empty: not called)
          out,            \* last line printed
          accessed,       \* subscripts used on game.board by the last input
          moves,          \* number of accepted moves
          rejects,        \* inputs rejected by the latest call of take_turn
          players         \* the values current_player has held, oldest first

vars == <<board, current_player, pc, win, draw, out, accessed, moves, rejects, players>>

----------------------------------------------------------------------------
(* Bounds *)

\* integers typed at the prompt range over -MaxInput .. MaxInput
MaxInput == 11
\* rejected inputs per call of take_turn
MaxRejects == 2
\* calls of switch_player on a free-standing GameState
MaxSwitches == 2

----------------------------------------------------------------------------
(* Data *)

N == 9
EMPTY == " "
None == "None"
Marks == {"X", "O"}
Cells == {EMPTY} \cup Marks
range(n) == 0 .. (n - 1)

GameState(b, p) == [board |-> b, current_player |-> p]

\* a fresh game whose first player is O
create_game_O == GameState([i \in range(N) |-> EMPTY], "O")

create_game == GameState([i \in range(N) |-> EMPTY], "X")

\* the table in the opposite order
WINNING_COMBINATIONS_reversed ==
    << <<2, 4, 6>>,
       <<0, 4, 8>>,
       <<2, 5, 8>>,
       <<1, 4, 7>>,
       <<0, 3, 6>>,
       <<6, 7, 8>>,
       <<3, 4, 5>>,
       <<0, 1, 2>> >>

\* the table without its last line
WINNING_COMBINATIONS_short ==
    << <<0, 1, 2>>,
       <<3, 4, 5>>,
       <<6, 7, 8>>,
       <<0, 3, 6>>,
       <<1, 4, 7>>,
       <<2, 5, 8>>,
       <<0, 4, 8>> >>

WINNING_COMBINATIONS ==
    << <<0, 1, 2>>,
       <<3, 4, 5>>,
       <<6, 7, 8>>,
       <<0, 3, 6>>,
       <<1, 4, 7>>,
       <<2, 5, 8>>,
       <<0, 4, 8>>,
       <<2, 4, 6>> >>

\* a switch whose two branches both yield O
switch_player_toO(p) == IF p = "X" THEN "O" ELSE "O"

\* a switch whose two branches yield the same player as before
switch_player_same(p) == IF p = "O" THEN "O" ELSE "X"

switch_player(p) == IF p = "X" THEN "O" ELSE "X"

----------------------------------------------------------------------------
(* Text typed at the prompt: a sequence of characters *)

Digits == <<"0", "1", "2", "3", "4", "5", "6", "7", "8", "9">>
IsDigit(ch) == \E d \in 1..Len(Digits) : Digits[d] = ch
DigitVal(ch) == (CHOOSE d \in 1..Len(Digits) : Digits[d] = ch) - 1

RECURSIVE NatText(_)
NatText(n) == IF n < 10 THEN <<Digits[n + 1]>>
              ELSE NatText(n \div 10) \o <<Digits[(n % 10) + 1]>>

\* what a user types for the integer n
IntText(n) == IF n < 0 THEN <<"-">> \o NatText(0 - n) ELSE NatText(n)

IntInputs == {IntText(n) : n \in (0 - MaxInput) .. MaxInput}
\* texts Python's int() also accepts: surrounding blanks, a plus sign, leading zeros
PaddedInputs == {<<" ", "5", " ">>, <<"+", "3">>, <<"0", "7">>, <<" ", "1", "0">>}
\* texts that are not integers
JunkInputs == {<<>>, <<" ">>, <<"a">>, <<"-">>, <<"1", ".", "5">>,
               <<"1", "a">>, <<"1", " ", "2">>, <<"-", "-", "1">>}
Inputs == IntInputs \cup PaddedInputs \cup JunkInputs

RECURSIVE lstrip(_)
lstrip(s) == IF s # <<>> /\ Head(s) = " " THEN lstrip(Tail(s)) ELSE s

RECURSIVE rstrip(_)
rstrip(s) == IF s # <<>> /\ s[Len(s)] = " "
             THEN rstrip(SubSeq(s, 1, Len(s) - 1)) ELSE s

\* str.strip()
strip(s) == rstrip(lstrip(s))

RECURSIVE DigitsValue(_, _)
DigitsValue(s, acc) == IF s = <<>> THEN acc
                       ELSE DigitsValue(Tail(s), 10 * acc + DigitVal(Head(s)))

ValueError == [ok |-> FALSE, val |-> 0]

\* int(text): an optional sign followed by one or more digits, else ValueError
int(text) ==
    LET s == strip(text)
        signed == s # <<>> /\ Head(s) \in {"-", "+"}
        body == IF signed THEN Tail(s) ELSE s
    IN IF body = <<>> \/ \E i \in 1..Len(body) : ~IsDigit(body[i])
       THEN ValueError
       ELSE [ok |-> TRUE,
             val |-> IF signed /\ Head(s) = "-"
                     THEN 0 - DigitsValue(body, 0) ELSE DigitsValue(body, 0)]

----------------------------------------------------------------------------
(* Rules *)

\* list subscript: a negative subscript counts from the end
ListIndex(i) == IF i < 0 THEN i + N ELSE i

\* position = int(choice) - 1, without the subtraction
position_of_raw(parsed) == parsed.val

\* position = int(choice) - 1
position_of(parsed) == parsed.val - 1

\* a range test without its lower end
in_range_upper(position) == position <= N - 1

\* position in range(9)
in_range(position) == position \in range(N)

\* a test that finds only the squares of X taken
taken_byX(b, position) == b[ListIndex(position)] = "X"

\* a test that never finds the square taken
taken_never(b, position) == FALSE

\* game.board[position] != " "
taken(b, position) == b[ListIndex(position)] # EMPTY

\* game.board[position] = game.current_player
place(b, position, player) == [b EXCEPT ![ListIndex(position)] = player]

\* a scan that accepts three equal cells even when they are empty
RECURSIVE winner_from_blank(_, _)
winner_from_blank(b, k) ==
    IF k > Len(WINNING_COMBINATIONS) THEN None
    ELSE LET l == WINNING_COMBINATIONS[k]
         IN IF b[l[1]] = b[l[2]] /\ b[l[2]] = b[l[3]]
            THEN b[l[1]]
            ELSE winner_from_blank(b, k + 1)

\* for a, b, c in WINNING_COMBINATIONS, from the k-th line on
RECURSIVE winner_from(_, _)
winner_from(b, k) ==
    IF k > Len(WINNING_COMBINATIONS) THEN None
    ELSE LET l == WINNING_COMBINATIONS[k]
         IN IF b[l[1]] # EMPTY /\ b[l[1]] = b[l[2]] /\ b[l[2]] = b[l[3]]
            THEN b[l[1]]
            ELSE winner_from(b, k + 1)

\* a scan that starts at the second line of the table
winner_skip(b) == winner_from(b, 2)

winner(b) == winner_from(b, 1)

\* the comparison of each square turned round
is_draw_blank(b) == \A i \in range(N) : b[i] = EMPTY

\* any() in place of all()
is_draw_any(b) == \E i \in range(N) : b[i] # EMPTY

is_draw(b) == \A i \in range(N) : b[i] # EMPTY

----------------------------------------------------------------------------
(* Messages *)

BoardMsg == <<"board">>
NumberMsg == <<"Please enter a number from 1 to 9.">>
TakenMsg == <<"That square is already taken. Try again.">>
WinMsg(w) == <<"Player", w, "wins! Congratulations!">>
DrawMsg == <<"It's a draw!">>

----------------------------------------------------------------------------
(* A session of play_game *)

Init ==
    /\ board = create_game.board
    /\ current_player = create_game.current_player
    /\ pc = "take_turn"
    /\ win = "unset"
    /\ draw = {}
    /\ out = BoardMsg
    /\ accessed = {}
    /\ moves = 0
    /\ rejects = 0
    /\ players = <<create_game.current_player>>

\* one iteration of the loop of take_turn, on the text typed at the prompt
take_turn(text) ==
    /\ pc = "take_turn"
    /\ LET choice == strip(text)
           parsed == int(choice)
           position == position_of(parsed)
       IN IF ~parsed.ok \/ ~in_range(position)
          THEN /\ rejects < MaxRejects
               /\ out' = NumberMsg
               /\ accessed' = {}
               /\ rejects' = rejects + 1
               /\ UNCHANGED <<board, current_player, pc, moves>>
          ELSE /\ ListIndex(position) \in DOMAIN board
               /\ accessed' = {position}
               /\ IF taken(board, position)
                  THEN /\ rejects < MaxRejects
                       /\ out' = TakenMsg
                       /\ rejects' = rejects + 1
                       /\ UNCHANGED <<board, current_player, pc, moves>>
                  ELSE /\ board' = place(board, position, current_player)
                       /\ pc' = "winner"
                       /\ moves' = moves + 1
                       /\ UNCHANGED <<current_player, out, rejects>>
    /\ UNCHANGED <<win, draw, players>>

\* the two checks in the other order: the draw check first
CheckWinner_drawFirst ==
    /\ pc = "winner"
    /\ win' = winner(board)
    /\ IF is_draw(board)
       THEN /\ out' = DrawMsg
            /\ pc' = "done"
       ELSE IF win' # None
            THEN /\ out' = WinMsg(win')
                 /\ pc' = "done"
            ELSE /\ pc' = "is_draw"
                 /\ UNCHANGED out
    /\ UNCHANGED <<board, current_player, draw, accessed, moves, rejects, players>>

\* the player switched before the winner check
CheckWinner_switched ==
    /\ pc = "winner"
    /\ win' = winner(board)
    /\ current_player' = switch_player(current_player)
    /\ players' = Append(players, current_player')
    /\ IF win' # None
       THEN /\ out' = WinMsg(win')
            /\ pc' = "done"
       ELSE /\ pc' = "is_draw"
            /\ UNCHANGED out
    /\ UNCHANGED <<board, draw, accessed, moves, rejects>>

\* the winner check without its break
CheckWinner_noBreak ==
    /\ pc = "winner"
    /\ win' = winner(board)
    /\ IF win' # None
       THEN /\ out' = WinMsg(win')
            /\ pc' = "is_draw"
       ELSE /\ pc' = "is_draw"
            /\ UNCHANGED out
    /\ UNCHANGED <<board, current_player, draw, accessed, moves, rejects, players>>

\* win = winner(game.board); if win: ... break
CheckWinner ==
    /\ pc = "winner"
    /\ win' = winner(board)
    /\ IF win' # None
       THEN /\ out' = WinMsg(win')
            /\ pc' = "done"
       ELSE /\ pc' = "is_draw"
            /\ UNCHANGED out
    /\ UNCHANGED <<board, current_player, draw, accessed, moves, rejects, players>>

\* the draw check without its break
CheckDraw_noBreak ==
    /\ pc = "is_draw"
    /\ draw' = {is_draw(board)}
    /\ IF is_draw(board)
       THEN /\ out' = DrawMsg
            /\ pc' = "switch"
       ELSE /\ pc' = "switch"
            /\ UNCHANGED out
    /\ UNCHANGED <<board, current_player, win, accessed, moves, rejects, players>>

\* if is_draw(game.board): ... break
CheckDraw ==
    /\ pc = "is_draw"
    /\ draw' = {is_draw(board)}
    /\ IF is_draw(board)
       THEN /\ out' = DrawMsg
            /\ pc' = "done"
       ELSE /\ pc' = "switch"
            /\ UNCHANGED out
    /\ UNCHANGED <<board, current_player, win, accessed, moves, rejects, players>>

\* game.switch_player(), then print_board at the top of the loop
SwitchPlayer ==
    /\ pc = "switch"
    /\ current_player' = switch_player(current_player)
    /\ out' = BoardMsg
    /\ pc' = "take_turn"
    /\ rejects' = 0
    /\ players' = Append(players, current_player')
    /\ UNCHANGED <<board, win, draw, accessed, moves>>

Next ==
    \/ \E text \in Inputs : take_turn(text)
    \/ CheckWinner
    \/ CheckDraw
    \/ SwitchPlayer

Spec == Init /\ [][Next]_vars

----------------------------------------------------------------------------
(* The pure functions on an arbitrary board *)

Boards == [range(N) -> Cells]

InitFn ==
    /\ board \in Boards
    /\ current_player \in Marks
    /\ pc = "fn"
    /\ win = "unset"
    /\ draw = {}
    /\ out = BoardMsg
    /\ accessed = {}
    /\ moves = 0
    /\ rejects = 0
    /\ players = <<current_player>>

CallWinner ==
    /\ pc = "fn"
    /\ win = "unset"
    /\ win' = winner(board)
    /\ UNCHANGED <<board, current_player, pc, draw, out, accessed, moves, rejects, players>>

CallIsDraw ==
    /\ pc = "fn"
    /\ draw = {}
    /\ draw' = {is_draw(board)}
    /\ UNCHANGED <<board, current_player, pc, win, out, accessed, moves, rejects, players>>

\* game.switch_player() on a GameState outside a session
CallSwitch ==
    /\ pc = "fn"
    /\ Len(players) <= MaxSwitches
    /\ current_player' = switch_player(current_player)
    /\ players' = Append(players, current_player')
    /\ UNCHANGED <<board, pc, win, draw, out, accessed, moves, rejects>>

NextFn ==
    \/ CallWinner
    \/ CallIsDraw
    \/ CallSwitch

SpecFn == InitFn /\ [][NextFn]_vars

----------------------------------------------------------------------------
(* The rules of the game, stated on the 3x3 grid (index = row * 3 + col) *)

Row(r) == {r * 3 + c : c \in 0..2}
Col(c) == {r * 3 + c : r \in 0..2}
Diagonal == {i * 3 + i : i \in 0..2}
AntiDiagonal == {i * 3 + (2 - i) : i \in 0..2}
GridLines == {Row(r) : r \in 0..2} \cup {Col(c) : c \in 0..2} \cup {Diagonal, AntiDiagonal}

Complete(b, m) == \E L \in GridLines : \A i \in L : b[i] = m
HasLine(b) == \E m \in Marks : Complete(b, m)
Full(b) == \A i \in 0..8 : b[i] \in Marks
MarkOfMove(k) == IF k % 2 = 1 THEN "X" ELSE "O"

\* texts the prompt must refuse: not an integer, or an integer outside 1..9
Refused == JunkInputs \cup {IntText(n) : n \in ((0 - MaxInput) .. MaxInput) \ (1..9)}

----------------------------------------------------------------------------
(* Properties of a session *)

\* C1: once the board holds a complete winning line or all 9 cells are
\* non-empty, no step applies a move or issues a prompt (the session is never
\* at the prompt or about to switch players), and a session that has ended in
\* Won or Draw takes no further step.
C1_TerminalIsFinal ==
    [][ /\ (HasLine(board) \/ Full(board)) =>
             /\ board' = board
             /\ moves' = moves
             /\ rejects' = rejects
             /\ pc \notin {"take_turn", "switch"}
             /\ pc' \notin {"take_turn", "switch"}
        /\ pc = "done" => UNCHANGED vars ]_vars

C1_Witness == pc = "done" /\ HasLine(board) /\ ~Full(board)

\* C2: a session starts with 9 empty cells and X to move, and the k-th
\* accepted move marks an empty cell with X when k is odd and with O when k is
\* even, however many inputs were rejected before it.
C2_MarksAlternate ==
    [][ /\ moves = 0 => /\ \A i \in 0..8 : board[i] = EMPTY
                        /\ current_player = "X"
        /\ moves' # moves =>
             /\ moves' = moves + 1
             /\ \E p \in 0..8 : /\ board[p] = EMPTY
                                /\ board'[p] = MarkOfMove(moves')
                                /\ \A q \in (0..8) \ {p} : board'[q] = board[q] ]_vars

C2_Witness == pc = "winner" /\ moves = 4 /\ rejects = MaxRejects

\* C3: an accepted move at an empty cell p (the input p + 1) sets cell p to the
\* current player's mark, leaves the other 8 cells as they were and leaves
\* current_player as it was.
C3_MoveFrame ==
    [][ \A p \in 0..8 :
          (board[p] = EMPTY /\ take_turn(IntText(p + 1))) =>
             /\ board'[p] = current_player
             /\ \A q \in (0..8) \ {p} : board'[q] = board[q]
             /\ current_player' = current_player
             /\ moves' = moves + 1 ]_vars

C3_Witness ==
    /\ pc = "winner"
    /\ accessed = {8}
    /\ board[8] = "O"
    /\ current_player = "O"

\* C4: choosing a square in 1..9 that is occupied changes neither the board
\* nor current_player and leaves the same player at the prompt (a step that
\* changes any of them is not the step of such an input); current_player
\* changes only in the switch that follows an applied move of that player.
C4_OccupiedRejected ==
    [][ /\ \/ /\ board' = board
              /\ current_player' = current_player
              /\ pc' = "take_turn"
              /\ moves' = moves
           \/ \A n \in 1..9 : board[n - 1] # EMPTY => ~take_turn(IntText(n))
        /\ current_player' # current_player =>
             /\ pc = "switch"
             /\ \E p \in 0..8 : accessed = {p} /\ board[p] = current_player ]_vars

C4_Witness == pc = "take_turn" /\ out = TakenMsg /\ accessed = {0} /\ board[0] = "X" /\ current_player = "O"

\* C5: an input that is not a decimal integer, or is an integer outside 1..9
\* (0 and negative numbers included), changes neither the board nor
\* current_player and leaves the same player at the prompt (a step that changes
\* any of them is not the step of such an input); the board is never
\* subscripted outside 0..8.
C5_BadInputRejected ==
    [][ /\ \/ /\ board' = board
              /\ current_player' = current_player
              /\ pc' = "take_turn"
              /\ moves' = moves
           \/ \A text \in Refused : ~take_turn(text)
        /\ accessed' \subseteq 0..8 ]_vars

C5_Witness == pc = "take_turn" /\ out = NumberMsg /\ rejects = MaxRejects /\ moves = 3

\* C7: a session that ends with a complete line on the board ends in Won for
\* the mark of that line, also when the last move filled the board; it ends in
\* Draw exactly when all 9 cells are non-empty and no line is complete.
C7_WinBeforeDraw ==
    pc = "done" =>
       /\ out = DrawMsg <=> (Full(board) /\ ~HasLine(board))
       /\ HasLine(board) => \E m \in Marks : Complete(board, m) /\ out = WinMsg(m) /\ win = m
       /\ out # DrawMsg => draw \subseteq {FALSE}

C7_Witness == pc = "done" /\ Full(board) /\ HasLine(board) /\ out = WinMsg("X")

\* C10: no board of a session holds a complete line of X and a complete line
\* of O, so every complete line carries the mark winner returns, whatever the
\* order in which the lines are scanned.
C10_OneWinner ==
    /\ ~(Complete(board, "X") /\ Complete(board, "O"))
    /\ \A L \in GridLines : \A m \in Marks :
          (\A i \in L : board[i] = m) => winner(board) = m

C10_Witness ==
    /\ pc = "done"
    /\ Cardinality({L \in GridLines : \A i \in L : board[i] = "X"}) = 2

FinalMsgs == {WinMsg(m) : m \in Marks} \cup {DrawMsg}

\* statements of play_game run so far, rejected inputs not counted
Progress ==
    4 * moves + (CASE pc = "winner" -> 0
                   [] pc = "is_draw" -> 1
                   [] pc = "switch" -> 2
                   [] pc = "take_turn" -> 3
                   [] OTHER -> 4)

\* C12: when every prompt eventually receives a valid move, the session
\* reaches Won or Draw after at most 9 accepted moves. Stated on single
\* steps: at every prompt a valid move exists and is accepted when typed;
\* every step other than the rejection of an input brings the end nearer, and
\* a rejection never takes the session back; the end is at most 9 accepted
\* moves away. The final message (win or draw) is printed exactly once, by
\* the step that ends the session, and nothing happens after it.
C12_SessionEnds ==
    /\ [](pc \in {"take_turn", "winner", "is_draw", "switch", "done"})
    /\ [](pc = "take_turn" => \E p \in 0..8 : board[p] = EMPTY)
    /\ [](moves <= 9 /\ Progress <= 4 * 9 + 4)
    /\ [](pc = "done" <=> out \in FinalMsgs)
    /\ [][ /\ \A p \in 0..8 :
                (board[p] = EMPTY /\ take_turn(IntText(p + 1))) => moves' = moves + 1
           /\ rejects' # rejects + 1 => Progress' > Progress
           /\ rejects' = rejects + 1 => Progress' = Progress
           /\ out' \in FinalMsgs => (out \notin FinalMsgs /\ pc' = "done")
           /\ pc = "done" => UNCHANGED vars ]_vars

C12_Witness == pc = "done" /\ out = WinMsg("O") /\ moves = 8

\* the squares typed in the scenario of C13, in order
Scenario == <<1, 5, 2, 8, 3>>

\* the board after the first k moves of the scenario
ScenarioBoard(k) ==
    [i \in 0..8 |->
       IF \E j \in 1..k : Scenario[j] = i + 1
       THEN MarkOfMove(CHOOSE j \in 1..k : Scenario[j] = i + 1)
       ELSE EMPTY]

\* C13: on the boards that follow the inputs 1, 5, 2, 8, 3 winner is None
\* after each of the first four moves, after which the session goes on, and X
\* after the fifth, where the session ends in Won(X).
C13_TopRowScenario ==
    \A k \in 1..5 :
       board = ScenarioBoard(k) =>
          /\ moves = k
          /\ winner(board) = (IF k = 5 THEN "X" ELSE None)
          /\ pc # "winner" =>
                /\ win = (IF k = 5 THEN "X" ELSE None)
                /\ pc = "done" <=> k = 5
                /\ k = 5 => out = WinMsg("X")

C13_Witness ==
    /\ board = ScenarioBoard(5)
    /\ pc = "done"
    /\ accessed = {2}
    /\ win = "X"

\* C14: on every board of a session whose 9 cells are filled with no three in
\* a row, winner returns None and is_draw returns True after the ninth move,
\* and the session ends in Draw.
C14_FullBoardDraw ==
    (Full(board) /\ ~HasLine(board)) =>
       /\ moves = 9
       /\ winner(board) = None
       /\ is_draw(board)
       /\ pc # "winner" => win = None
       /\ pc \notin {"winner", "is_draw"} =>
             (pc = "done" /\ draw = {TRUE} /\ out = DrawMsg)

C14_Witness ==
    /\ pc = "done"
    /\ out = DrawMsg
    /\ moves = 9
    /\ Full(board)
    /\ ~HasLine(board)

\* C15: current_player has been switched once for every accepted move that
\* left the game in progress and not for the move that ended it, so after a
\* move it is the mark just placed, and a session that ends in Won(p) has
\* p = current_player = the mark placed by the last accepted move.
C15_SwitchPerMove ==
    /\ Len(players) - 1 = (IF pc = "take_turn" THEN moves ELSE moves - 1)
    /\ current_player = players[Len(players)]
    /\ pc # "take_turn" =>
          /\ current_player = MarkOfMove(moves)
          /\ \E p \in 0..8 : accessed = {p} /\ board[p] = current_player
    /\ (pc = "done" /\ win # None) => (win = current_player /\ out = WinMsg(current_player))

C15_Witness == pc = "done" /\ win = "O" /\ current_player = "O" /\ Len(players) = 6

CountOf(b, m) == Cardinality({i \in 0..8 : b[i] = m})

\* C17: the board always holds as many X as O or one X more; at every prompt
\* X is to move iff the counts are equal and O iff X has one more; no session
\* ends in Won before the 5th accepted move, Won(O) only after an even number
\* of accepted moves, Draw only after 9 accepted moves (5 X and 4 O).
C17_MarkCounts ==
    LET nx == CountOf(board, "X")
        no == CountOf(board, "O")
    IN /\ nx - no \in {0, 1}
       /\ nx + no = moves
       /\ pc = "take_turn" =>
             /\ current_player = "X" <=> nx = no
             /\ current_player = "O" <=> nx = no + 1
       /\ (pc = "done" /\ out # DrawMsg) =>
             /\ moves >= 5
             /\ out = WinMsg("O") => moves % 2 = 0
             /\ out = WinMsg("X") => moves % 2 = 1
       /\ (pc = "done" /\ out = DrawMsg) => (moves = 9 /\ nx = 5 /\ no = 4)

C17_Witness == pc = "done" /\ out = WinMsg("O") /\ moves = 6

\* C18: a cell that holds X or O never changes again; the set of non-empty
\* cells grows by exactly one cell with every accepted move and stays as it
\* is with every rejected input and every other step.
C18_MarksPermanent ==
    [][ /\ \A i \in 0..8 : board[i] # EMPTY => board'[i] = board[i]
        /\ moves' # moves =>
             Cardinality({i \in 0..8 : board'[i] # EMPTY})
                = Cardinality({i \in 0..8 : board[i] # EMPTY}) + 1
        /\ moves' = moves => board' = board
        /\ rejects' = rejects + 1 => (board' = board /\ moves' = moves) ]_vars

C18_Witness ==
    /\ pc = "take_turn"
    /\ out = TakenMsg
    /\ accessed = {4}
    /\ board[4] = "O"
    /\ current_player = "X"
    /\ moves = 6

----------------------------------------------------------------------------
(* Properties of the pure functions, on every board *)

\* C6: winner returns a mark exactly when some line of the grid holds three
\* equal non-empty cells, the mark returned occupies such a line, and it
\* returns None exactly when no line is complete.
C6_WinnerIffLine ==
    win # "unset" =>
       /\ win \in Marks <=> HasLine(board)
       /\ win \in Marks => Complete(board, win)
       /\ win = None <=> ~HasLine(board)

C6_Witness == pc = "fn" /\ win = "O" /\ Complete(board, "O") /\ ~Full(board)

\* C8: on a board where winner returns None, is_draw returns True exactly when
\* all 9 cells are non-empty.
C8_DrawIffFull ==
    (win = None /\ draw # {}) => (draw = {TRUE} <=> Full(board))

C8_Witness == pc = "fn" /\ win = None /\ draw = {TRUE}

\* C9: is_draw returns True exactly when the board is full with no winner: it
\* is False on a full board that holds a complete line.
C9_DrawExcludesWinner ==
    draw # {} => (draw = {TRUE} <=> (Full(board) /\ ~HasLine(board)))

\* C11: switch_player always yields the other player, two calls in a row give
\* back the player held before them, and no call changes the board.
C11_SwitchInvolution ==
    [][ players' # players =>
          /\ current_player' \in Marks \ {current_player}
          /\ Len(players) >= 2 => current_player' = players[Len(players) - 1]
          /\ players' = Append(players, current_player')
          /\ board' = board ]_vars

C11_Witness == pc = "fn" /\ Len(players) = 3 /\ players[1] = "O" /\ current_player = "O"

\* the 8 lines in the order rows, columns, diagonals
LineOrder == <<Row(0), Row(1), Row(2), Col(0), Col(1), Col(2), Diagonal, AntiDiagonal>>
LineComplete(b, L) == \E m \in Marks : \A i \in L : b[i] = m
FirstComplete(b) == CHOOSE k \in 1..8 :
                       /\ LineComplete(b, LineOrder[k])
                       /\ \A j \in 1..(k - 1) : ~LineComplete(b, LineOrder[j])

\* C16: on a board that holds complete lines of both marks, winner returns
\* the mark of the first complete line in the order rows (0,1,2), (3,4,5),
\* (6,7,8), columns (0,3,6), (1,4,7), (2,5,8), diagonals (0,4,8), (2,4,6).
C16_FirstLineWins ==
    (win # "unset" /\ Complete(board, "X") /\ Complete(board, "O")) =>
       \A i \in LineOrder[FirstComplete(board)] : win = board[i]

C16_Witness ==
    /\ pc = "fn"
    /\ win = "O"
    /\ \A i \in Col(1) : board[i] = "O"
    /\ \A i \in Col(2) : board[i] = "X"

====
